---------------------------- MODULE Spec2Model ----------------------------
(***************************************************************************)
(* Model of the two tilesheet tools:                                       *)
(*   - the composer   (create_tilesheet,        pz-mod-tilesheets.py)      *)
(*   - the generator  (generate_missing_images, blank generator)          *)
(* A filename is a sequence of one-character strings.  The input folder is *)
(* a set of filenames; os.listdir returns them in an arbitrary order.      *)
(* Filenames are made of ASCII characters: the digits that \d, isdigit()   *)
(* and int() know are 0 to 9, the ones str() writes.                       *)
(***************************************************************************)
EXTENDS Integers, Sequences, FiniteSets, TLC

(***************************************************************************)
(* Bounds of the model.                                                    *)
(***************************************************************************)
\* files the operator may put into the input folder
MaxFiles == 2
\* longest generated filename handed to the pure string functions
MaxNameLen == 4
\* longest filename in a pair handed to the natural sort key comparison
MaxPairLen == 3
\* largest index handed to parse_prefix besides the file's own index
MaxIndexArg == 12
\* largest item count handed to the grid layout
MaxItems == 10
\* max_columns values tried besides the default of main()
MaxCols == 2

(***************************************************************************)
(* Program constants.                                                      *)
(***************************************************************************)
tile_width == 128
tile_height == 256
default_max_columns == 8
\* Python's None, as returned by parse_last_number (indices are naturals)
None == -1

(***************************************************************************)
(* Characters and strings (Python str operations used by the code).        *)
(***************************************************************************)
Digits == {"0", "1", "2", "3", "4", "5", "6", "7", "8", "9"}

\* value of one decimal digit, as int() reads it
DigitVal(c) ==
    CASE c = "0" -> 0 [] c = "1" -> 1 [] c = "2" -> 2 [] c = "3" -> 3
      [] c = "4" -> 4 [] c = "5" -> 5 [] c = "6" -> 6 [] c = "7" -> 7
      [] c = "8" -> 8 [] c = "9" -> 9

\* the digit str() writes for a value 0..9
DigitChar(d) ==
    CASE d = 0 -> "0" [] d = 1 -> "1" [] d = 2 -> "2" [] d = 3 -> "3"
      [] d = 4 -> "4" [] d = 5 -> "5" [] d = 6 -> "6" [] d = 7 -> "7"
      [] d = 8 -> "8" [] d = 9 -> "9"

\* code point of a character (the order Python compares str by)
Ord(c) ==
    CASE c = "." -> 46
      [] c \in Digits -> 48 + DigitVal(c)
      [] c = "E" -> 69 [] c = "G" -> 71 [] c = "J" -> 74 [] c = "N" -> 78
      [] c = "P" -> 80 [] c = "T" -> 84 [] c = "X" -> 88
      [] c = "_" -> 95
      [] c = "a" -> 97 [] c = "b" -> 98 [] c = "c" -> 99 [] c = "d" -> 100
      [] c = "e" -> 101 [] c = "g" -> 103 [] c = "i" -> 105 [] c = "j" -> 106
      [] c = "l" -> 108 [] c = "m" -> 109 [] c = "n" -> 110 [] c = "o" -> 111
      [] c = "p" -> 112 [] c = "r" -> 114 [] c = "s" -> 115 [] c = "t" -> 116
      [] c = "u" -> 117 [] c = "x" -> 120

\* str.lower() on one character
LowerChar(c) ==
    CASE c = "E" -> "e" [] c = "G" -> "g" [] c = "J" -> "j" [] c = "N" -> "n"
      [] c = "P" -> "p" [] c = "T" -> "t" [] c = "X" -> "x"
      [] OTHER -> c

\* str.lower()
lower(s) == [i \in 1..Len(s) |-> LowerChar(s[i])]

\* str.endswith(suffix)
endswith(s, suffix) ==
    /\ Len(suffix) <= Len(s)
    /\ SubSeq(s, Len(s) - Len(suffix) + 1, Len(s)) = suffix

\* str.isdigit(): non-empty and every character a digit
isdigit(t) == t # <<>> /\ \A i \in 1..Len(t) : t[i] \in Digits

\* int(token) of a digit run: leading zeros carry no value
RECURSIVE int(_)
int(t) ==
    IF t = <<>> THEN 0
    ELSE int(SubSeq(t, 1, Len(t) - 1)) * 10 + DigitVal(t[Len(t)])

\* str(n) of a natural number: decimal, no leading zeros
RECURSIVE str(_)
str(n) ==
    IF n < 10 THEN <<DigitChar(n)>>
    ELSE str(n \div 10) \o <<DigitChar(n % 10)>>

\* re.split(r'(\d+)', s), scanning s left to right: toks holds the tokens so
\* far, its last one still growing; inDigit says whether that one is a digit run
RECURSIVE SplitAcc(_, _, _)
SplitAcc(s, toks, inDigit) ==
    IF s = <<>>
    THEN IF inDigit THEN Append(toks, <<>>) ELSE toks
    ELSE LET c == Head(s)
             d == c \in Digits
         IN  IF d = inDigit
             THEN SplitAcc(Tail(s), [toks EXCEPT ![Len(toks)] = Append(@, c)], inDigit)
             ELSE IF d
                  THEN SplitAcc(Tail(s), Append(toks, <<c>>), TRUE)
                  ELSE SplitAcc(Tail(s), Append(toks, <<c>>), FALSE)

\* re.split(r'(\d+)', s): text, digit run, text, ..., text (texts may be empty)
re_split(s) == SplitAcc(s, << <<>> >>, FALSE)

\* os.path.splitext(p) for a name without directory separators: the extension
\* starts at the last dot, unless only dots precede it
splitext(p) ==
    LET dots == {i \in 1..Len(p) : p[i] = "."}
        dotIndex == IF dots = {} THEN 0 ELSE CHOOSE i \in dots : \A j \in dots : j <= i
    IN  IF dotIndex > 0 /\ \E k \in 1..(dotIndex - 1) : p[k] # "."
        THEN <<SubSeq(p, 1, dotIndex - 1), SubSeq(p, dotIndex, Len(p))>>
        ELSE <<p, <<>> >>

(***************************************************************************)
(* Filename Indexer.                                                       *)
(***************************************************************************)
\* fault: numbers[0], the first number of the name, in place of numbers[-1]
parse_first_number(filename) ==
    LET tokens == re_split(filename)
        digitTokens == SelectSeq(tokens, isdigit)
        numbers == [i \in 1..Len(digitTokens) |-> int(digitTokens[i])]
    IN  IF numbers = <<>> THEN None ELSE numbers[1]

\* parse_last_number of the generator: int of the last digit run, or None
parse_last_number(filename) ==
    LET tokens == re_split(filename)
        digitTokens == SelectSeq(tokens, isdigit)
        numbers == [i \in 1..Len(digitTokens) |-> int(digitTokens[i])]
    IN  IF numbers = <<>> THEN None ELSE numbers[Len(numbers)]

\* parse_last_number of the composer (the same code, in the other script)
composer_parse_last_number(filename) ==
    LET tokens == re_split(filename)
        digitTokens == SelectSeq(tokens, isdigit)
        numbers == [i \in 1..Len(digitTokens) |-> int(digitTokens[i])]
    IN  IF numbers = <<>> THEN None ELSE numbers[Len(numbers)]

\* fault: the last len(num_str) characters go without the endswith test
parse_prefix_unchecked(filename, last_number) ==
    LET base == splitext(filename)[1]
        num_str == str(last_number)
    IN  SubSeq(base, 1, Len(base) - Len(num_str))

\* fault: every trailing digit of the base name goes, leading zeros included
RECURSIVE strip_digits(_)
strip_digits(base) ==
    IF base # <<>> /\ base[Len(base)] \in Digits
    THEN strip_digits(SubSeq(base, 1, Len(base) - 1))
    ELSE base

parse_prefix_all_digits(filename, last_number) ==
    LET base == splitext(filename)[1]
    IN  IF endswith(base, str(last_number)) THEN strip_digits(base) ELSE base

\* parse_prefix: base name without str(last_number) at its end, if it ends so
parse_prefix(filename, last_number) ==
    LET base == splitext(filename)[1]
        num_str == str(last_number)
    IN  IF endswith(base, num_str)
        THEN SubSeq(base, 1, Len(base) - Len(num_str))
        ELSE base

(***************************************************************************)
(* Natural Sort Key.                                                       *)
(***************************************************************************)
\* one element of a key: an int (num) or a str
NumTok(n) == [num |-> TRUE, n |-> n, s |-> <<>>]
StrTok(s) == [num |-> FALSE, n |-> 0, s |-> s]

\* fault: the digit runs stay text, so the order is the lexical one
lexical_key(filename) ==
    LET tokens == re_split(filename)
    IN  [i \in 1..Len(tokens) |-> StrTok(tokens[i])]

\* natural_key: digit runs become ints, the other tokens stay text
natural_key(filename) ==
    LET tokens == re_split(filename)
    IN  [i \in 1..Len(tokens) |->
            IF isdigit(tokens[i]) THEN NumTok(int(tokens[i])) ELSE StrTok(tokens[i])]

\* Python's < on two str: by code point, a proper prefix is smaller
RECURSIVE StrLess(_, _)
StrLess(a, b) ==
    IF b = <<>> THEN FALSE
    ELSE IF a = <<>> THEN TRUE
    ELSE IF Head(a) # Head(b) THEN Ord(Head(a)) < Ord(Head(b))
    ELSE StrLess(Tail(a), Tail(b))

\* Python's comparison of two lists (the keys): the first position where the
\* elements are unequal decides; int against str there raises TypeError
RECURSIVE KeyCmp(_, _)
KeyCmp(k1, k2) ==
    IF k1 = <<>> /\ k2 = <<>> THEN "eq"
    ELSE IF k1 = <<>> THEN "lt"
    ELSE IF k2 = <<>> THEN "gt"
    ELSE LET x == Head(k1)
             y == Head(k2)
         IN  IF x = y THEN KeyCmp(Tail(k1), Tail(k2))
             ELSE IF x.num # y.num THEN "TypeError"
             ELSE IF x.num THEN (IF x.n < y.n THEN "lt" ELSE "gt")
             ELSE IF StrLess(x.s, y.s) THEN "lt" ELSE "gt"

(***************************************************************************)
(* Grid Composer layout (create_tilesheet, steps 3 to 5).                  *)
(***************************************************************************)
\* fault: floor division in place of math.ceil
floor_div(n, c) == n \div c

\* math.ceil(n / c) for naturals n and c > 0 (the quotient of two small ints
\* is an exact or correctly rounded float, so its ceiling is the integer one)
ceil_div(n, c) == IF n % c = 0 THEN n \div c ELSE (n \div c) + 1

\* columns, rows, canvas size and the paste origin (x, y) of every slot
Grid(num_images, max_columns) ==
    LET columns == IF num_images < max_columns THEN num_images ELSE max_columns
    IN  IF columns = 0
        THEN [error |-> "ZeroDivisionError", columns |-> 0, rows |-> 0,
              grid_width |-> 0, grid_height |-> 0, cells |-> <<>>]
        ELSE LET rows == ceil_div(num_images, columns)
             IN  [error |-> "", columns |-> columns, rows |-> rows,
                  grid_width |-> columns * tile_width,
                  grid_height |-> rows * tile_height,
                  cells |-> [i \in 1..num_images |->
                                LET col == (i - 1) % columns
                                    row == (i - 1) \div columns
                                IN  <<col * tile_width, row * tile_height>>]]

NoGrid == [error |-> "", columns |-> 0, rows |-> 0,
           grid_width |-> 0, grid_height |-> 0, cells |-> <<>>]

(***************************************************************************)
(* Folders.                                                                *)
(***************************************************************************)
\* the extensions both tools accept, compared with the lower-cased name
ImageExts == {<<".", "p", "n", "g">>, <<".", "j", "p", "g">>, <<".", "j", "p", "e", "g">>}

\* f.lower().endswith(('.png', '.jpg', '.jpeg'))
IsImage(f) == \E e \in ImageExts : endswith(lower(f), e)

\* base names and extensions of the files the operator may put into the folder
Stems == {<<>>, <<"a">>, <<"a", "0">>, <<"a", "1">>, <<"a", "3">>, <<"a", "0", "1">>,
          <<"b", "3">>, <<"a", "1", "b">>, <<"3">>}
Pool ==
    {s \o <<".", "p", "n", "g">> : s \in Stems}
        \cup {s \o <<".", "J", "P", "G">> : s \in {<<"a", "0">>, <<"a", "3">>}}
        \cup {<<"a", "1", ".", "j", "p", "e", "g">>, <<"a", "2", ".", "t", "x", "t">>}

\* the orders os.listdir may return the files of a folder in
RECURSIVE Listings(_)
Listings(S) ==
    IF S = {} THEN {<<>>}
    ELSE UNION {{<<f>> \o rest : rest \in Listings(S \ {f})} : f \in S}

Range(s) == {s[i] : i \in 1..Len(s)}

\* the image files of a listing, in listing order
all_files(listing) == SelectSeq(listing, IsImage)

\* dict assignment map[k] = v
Put(map, k, v) == [x \in (DOMAIN map) \cup {k} |-> IF x = k THEN v ELSE map[x]]

\* the empty dict
EmptyDict == [x \in {} |-> <<>>]

\* min() and max() of a non-empty set of indices
MinOf(S) == CHOOSE x \in S : \A y \in S : x <= y
MaxOf(S) == CHOOSE x \in S : \A y \in S : y <= x

\* a printed line: its text and the filename it mentions, if any
Msg(text, file) == [text |-> text, file |-> file]

\* the slot of a missing index in the composed sequence (Python's None): no
\* file has the empty name
NoFile == <<>>

\* what one run of a tool leaves behind
NoOp ==
    [name |-> "none", snapshot |-> {}, second |-> FALSE, fill |-> FALSE,
     max_columns |-> 0, returned |-> "", error |-> "", printed |-> <<>>,
     index_to_file |-> EmptyDict, min_idx |-> None, max_idx |-> None,
     example_file |-> <<>>, prefix |-> <<>>, ext |-> <<>>,
     missing_indices |-> <<>>, written |-> <<>>,
     sorted_files |-> <<>>, expanded_files |-> <<>>, grid |-> NoGrid, saved |-> FALSE]

(***************************************************************************)
(* generate_missing_images.                                                *)
(***************************************************************************)
\* step 2: index_to_file[idx] = filename for every file with an index
RECURSIVE IndexFiles(_, _)
IndexFiles(files, map) ==
    IF files = <<>> THEN map
    ELSE LET idx == parse_last_number(Head(files))
         IN  IndexFiles(Tail(files), IF idx # None THEN Put(map, idx, Head(files)) ELSE map)

\* "if not all_files"
NoImages(files) == files = <<>>

\* fault: the test for an empty index_to_file is missing
NoIndicesUnchecked(map) == FALSE

\* "if not index_to_file"
NoIndices(map) == DOMAIN map = {}

\* fault: the loop ends at the first missing index
RECURSIVE MissingFirstOnly(_, _, _)
MissingFirstOnly(i, max_idx, map) ==
    IF i > max_idx THEN <<>>
    ELSE IF i \notin DOMAIN map THEN <<i>>
    ELSE MissingFirstOnly(i + 1, max_idx, map)

\* fault: the index is looked up among the filenames, where it never is
RECURSIVE MissingAll(_, _, _)
MissingAll(i, max_idx, map) ==
    IF i > max_idx THEN <<>> ELSE <<i>> \o MissingAll(i + 1, max_idx, map)

\* step 5: the indices of min_idx..max_idx that are no key, ascending
RECURSIVE MissingFrom(_, _, _)
MissingFrom(i, max_idx, map) ==
    IF i > max_idx THEN <<>>
    ELSE (IF i \notin DOMAIN map THEN <<i>> ELSE <<>>) \o MissingFrom(i + 1, max_idx, map)

\* step 6: the name written for a missing index
new_file_name(prefix, idx, ext) == prefix \o str(idx) \o ext

\* steps 3 to 6, for a given index_to_file
GenerateBody(run, map) ==
    IF DOMAIN map = {}
    THEN [run EXCEPT !.error = "ValueError"]
    ELSE LET min_idx == MinOf(DOMAIN map)
             max_idx == MaxOf(DOMAIN map)
             example_file == map[min_idx]
             prefix == parse_prefix(example_file, min_idx)
             ext == lower(splitext(example_file)[2])
             missing_indices == MissingFrom(min_idx, max_idx, map)
             found == [run EXCEPT !.min_idx = min_idx, !.max_idx = max_idx,
                                  !.example_file = example_file, !.prefix = prefix,
                                  !.ext = ext, !.missing_indices = missing_indices]
         IN  IF missing_indices = <<>>
             THEN [found EXCEPT !.returned = "no holes",
                                !.printed = <<Msg("There are no 'holes' in the indices.", <<>>)>>]
             ELSE LET names == [k \in 1..Len(missing_indices) |->
                                   new_file_name(prefix, missing_indices[k], ext)]
                  IN  [found EXCEPT
                         !.returned = "completed",
                         !.written = names,
                         !.printed = <<Msg("I will create missing images.", <<>>)>>
                                     \o [k \in 1..Len(names) |-> Msg("Created", names[k])]
                                     \o <<Msg("Operation completed!", <<>>)>>]

\* the whole run on the folder as os.listdir lists it
GenerateRun(snapshot, listing, second) ==
    LET run == [NoOp EXCEPT !.name = "generate_missing_images",
                            !.snapshot = snapshot, !.second = second]
        files == all_files(listing)
    IN  IF NoImages(files)
        THEN [run EXCEPT !.returned = "no images",
                         !.printed = <<Msg("No images found in the selected folder!", <<>>)>>]
        ELSE LET map == IndexFiles(files, EmptyDict)
                 indexed == [run EXCEPT !.index_to_file = map]
             IN  IF NoIndices(map)
                 THEN [indexed EXCEPT !.returned = "no numbers",
                         !.printed = <<Msg("None of the images contain a number in the name. Exiting.", <<>>)>>]
                 ELSE GenerateBody(indexed, map)

(***************************************************************************)
(* create_tilesheet.                                                       *)
(***************************************************************************)
\* list.sort(key=natural_key) is stable: a file goes behind every file whose
\* key is not greater than its own
InsertByKey(sorted, f) ==
    LET pos == Cardinality({i \in 1..Len(sorted) :
                   KeyCmp(natural_key(sorted[i]), natural_key(f)) # "gt"})
    IN  SubSeq(sorted, 1, pos) \o <<f>> \o SubSeq(sorted, pos + 1, Len(sorted))

RECURSIVE SortInto(_, _)
SortInto(files, sorted) ==
    IF files = <<>> THEN sorted ELSE SortInto(Tail(files), InsertByKey(sorted, Head(files)))

\* all_files.sort(key=natural_key)
sort_natural(files) == SortInto(files, <<>>)

\* whether comparing the keys of two of the files raises TypeError
SortRaises(files) ==
    \E i, j \in 1..Len(files) :
        KeyCmp(natural_key(files[i]), natural_key(files[j])) = "TypeError"

\* the loop filling index_to_file and valid_indices, warning about the rest
RECURSIVE ComposerIndex(_, _)
ComposerIndex(files, acc) ==
    IF files = <<>> THEN acc
    ELSE LET f == Head(files)
             idx == composer_parse_last_number(f)
         IN  ComposerIndex(Tail(files),
                IF idx # None
                THEN [acc EXCEPT !.index_to_file = Put(@, idx, f),
                                 !.valid_indices = Append(@, idx)]
                ELSE [acc EXCEPT !.printed = Append(@,
                         Msg("Warning: the file does not contain numbers, ignored.", f))])

\* "if not valid_indices"
NoValidIndices(valid_indices) == valid_indices = <<>>

\* fault: a missing index gets no slot
RECURSIVE ExpandExisting(_, _, _)
ExpandExisting(i, max_idx, map) ==
    IF i > max_idx THEN <<>>
    ELSE (IF i \in DOMAIN map THEN <<map[i]>> ELSE <<>>) \o ExpandExisting(i + 1, max_idx, map)

\* the sequence min_idx..max_idx: the file of an index, None where there is none
RECURSIVE ExpandFrom(_, _, _)
ExpandFrom(i, max_idx, map) ==
    IF i > max_idx THEN <<>>
    ELSE <<IF i \in DOMAIN map THEN map[i] ELSE NoFile>> \o ExpandFrom(i + 1, max_idx, map)

\* steps 3 to 6: lay the sequence out and save the sheet
ComposeSheet(run, expanded_files) ==
    LET grid == Grid(Len(expanded_files), run.max_columns)
    IN  IF grid.error # ""
        THEN [run EXCEPT !.expanded_files = expanded_files, !.error = grid.error]
        ELSE [run EXCEPT !.expanded_files = expanded_files, !.grid = grid,
                         !.saved = TRUE, !.returned = "completed",
                         !.printed = @ \o <<Msg("Tilesheet saved", <<>>),
                                            IF run.fill
                                            THEN Msg("Mode: with placeholders for missing indices.", <<>>)
                                            ELSE Msg("Mode: without placeholders (only existing images).", <<>>)>>]

\* the mode with placeholders, for the sorted files
ComposeFilled(run, files) ==
    LET acc == ComposerIndex(files, [index_to_file |-> EmptyDict,
                                     valid_indices |-> <<>>, printed |-> <<>>])
        indexed == [run EXCEPT !.index_to_file = acc.index_to_file, !.printed = acc.printed]
    IN  IF NoValidIndices(acc.valid_indices)
        THEN [indexed EXCEPT !.returned = "no numbers",
                 !.printed = @ \o <<Msg("No files with numbers found, cannot create placeholders.", <<>>)>>]
        ELSE IF Range(acc.valid_indices) = {}
        THEN [indexed EXCEPT !.error = "ValueError"]
        ELSE LET min_idx == MinOf(Range(acc.valid_indices))
                 max_idx == MaxOf(Range(acc.valid_indices))
             IN  ComposeSheet([indexed EXCEPT !.min_idx = min_idx, !.max_idx = max_idx],
                              ExpandFrom(min_idx, max_idx, acc.index_to_file))

\* the whole run on the folder as os.listdir lists it
ComposeRun(snapshot, listing, fill_missing_indices, max_columns) ==
    LET run == [NoOp EXCEPT !.name = "create_tilesheet", !.snapshot = snapshot,
                            !.fill = fill_missing_indices, !.max_columns = max_columns]
        files == all_files(listing)
    IN  IF NoImages(files)
        THEN [run EXCEPT !.returned = "no images",
                         !.printed = <<Msg("No images found in the input folder.", <<>>)>>]
        ELSE IF SortRaises(files)
        THEN [run EXCEPT !.error = "TypeError"]
        ELSE LET sorted == sort_natural(files)
                 ordered == [run EXCEPT !.sorted_files = sorted]
             IN  IF ~fill_missing_indices
                 THEN ComposeSheet(ordered, sorted)
                 ELSE ComposeFilled(ordered, sorted)

(***************************************************************************)
(* The tools at work on one input folder.                                  *)
(***************************************************************************)
VARIABLES
    folder,   \* the names of the files in the input folder
    pc,       \* "idle": no tool is running; "done": a run has just ended
    op,       \* what the run that has just ended did
    fresh,    \* the folder is as the last generate_missing_images run left it
    call      \* the last call of a pure function, with its result

vars == <<folder, pc, op, fresh, call>>

NoCall == [fn |-> "none"]

Init ==
    /\ folder = {}
    /\ pc = "idle"
    /\ op = NoOp
    /\ fresh = FALSE
    /\ call = NoCall

\* the operator puts a file into the input folder
AddFile(f) ==
    /\ pc = "idle"
    /\ f \notin folder
    /\ Cardinality(folder) < MaxFiles
    /\ folder' = folder \cup {f}
    /\ fresh' = FALSE
    /\ UNCHANGED <<pc, op, call>>

\* one run of the generator: the placeholders it saves appear in the folder
GenerateMissingImages(listing) ==
    /\ pc = "idle"
    /\ LET run == GenerateRun(folder, listing, fresh)
       IN  /\ op' = run
           /\ folder' = folder \cup Range(run.written)
    /\ fresh' = TRUE
    /\ pc' = "done"
    /\ UNCHANGED call

\* one run of the composer: the sheet goes to the output folder
CreateTilesheet(listing, fill_missing_indices, max_columns) ==
    /\ pc = "idle"
    /\ op' = ComposeRun(folder, listing, fill_missing_indices, max_columns)
    /\ pc' = "done"
    /\ UNCHANGED <<folder, fresh, call>>

\* the tool returns to the shell
Return ==
    /\ pc = "done"
    /\ pc' = "idle"
    /\ op' = NoOp
    /\ UNCHANGED <<folder, fresh, call>>

ColumnChoices == (1..MaxCols) \cup {default_max_columns}

Next ==
    \/ /\ pc = "idle"
       /\ \E f \in Pool : AddFile(f)
    \/ /\ pc = "idle"
       /\ \E listing \in Listings(folder) : GenerateMissingImages(listing)
    \/ /\ pc = "idle"
       /\ \E listing \in Listings(folder), fill \in BOOLEAN, mc \in ColumnChoices :
             CreateTilesheet(listing, fill, mc)
    \/ Return

Spec == Init /\ [][Next]_vars

(***************************************************************************)
(* The pure functions on their own, over all short filenames.              *)
(***************************************************************************)
NameChars == {"a", ".", "0", "1", "2"}
PairChars == {"a", "0", "1"}

\* every string over the characters cs of length at most n
StringsUpTo(cs, n) == UNION {[1..k -> cs] : k \in 0..n}

\* the filenames of the documentation
Examples == {<<"c", "a", "m", "p", "i", "n", "g", "_", "0", "4", "_", "1", "2", ".", "p", "n", "g">>,
             <<"t", "e", "n", "d", "a", "1", "0", ".", "j", "p", "g">>,
             <<"n", "o", "N", "u", "m", "b", "e", "r", "s", ".", "p", "n", "g">>,
             <<"t", "i", "l", "e", "_", "2", ".", "p", "n", "g">>,
             <<"t", "i", "l", "e", "_", "1", "0", ".", "p", "n", "g">>}

InitFn ==
    /\ folder = {}
    /\ pc = "idle"
    /\ op = NoOp
    /\ fresh = FALSE
    /\ call = NoCall

CallParseLastNumber(filename) ==
    /\ call = NoCall
    /\ call' = [fn |-> "parse_last_number", filename |-> filename,
                ret |-> parse_last_number(filename),
                composer_ret |-> composer_parse_last_number(filename)]
    /\ UNCHANGED <<folder, pc, op, fresh>>

CallParsePrefix(filename, last_number) ==
    /\ call = NoCall
    /\ call' = [fn |-> "parse_prefix", filename |-> filename,
                last_number |-> last_number,
                ret |-> parse_prefix(filename, last_number)]
    /\ UNCHANGED <<folder, pc, op, fresh>>

\* sorting the listing <<f, g>> of a folder of two files
CallNaturalSort(f, g) ==
    /\ call = NoCall
    /\ call' = [fn |-> "natural_sort", f |-> f, g |-> g,
                cmp |-> KeyCmp(natural_key(f), natural_key(g)),
                ret |-> IF SortRaises(<<f, g>>) THEN <<>> ELSE sort_natural(<<f, g>>)]
    /\ UNCHANGED <<folder, pc, op, fresh>>

CallGrid(num_images, max_columns) ==
    /\ call = NoCall
    /\ call' = [fn |-> "grid", num_images |-> num_images, max_columns |-> max_columns,
                ret |-> Grid(num_images, max_columns)]
    /\ UNCHANGED <<folder, pc, op, fresh>>

\* the call returns
ReturnFn ==
    /\ call # NoCall
    /\ call' = NoCall
    /\ UNCHANGED <<folder, pc, op, fresh>>

NextFn ==
    \/ /\ call = NoCall
       /\ \E filename \in StringsUpTo(NameChars, MaxNameLen) \cup Examples :
             CallParseLastNumber(filename)
    \/ /\ call = NoCall
       /\ \E filename \in StringsUpTo(NameChars, MaxNameLen) \cup Examples :
             \E last_number \in ((0..MaxIndexArg) \cup {parse_last_number(filename)}) \ {None} :
                CallParsePrefix(filename, last_number)
    \/ /\ call = NoCall
       /\ \E f, g \in StringsUpTo(PairChars, MaxPairLen) \cup Examples : CallNaturalSort(f, g)
    \/ /\ call = NoCall
       /\ \E num_images \in 1..MaxItems, max_columns \in ColumnChoices :
             CallGrid(num_images, max_columns)
    \/ ReturnFn

SpecFn == InitFn /\ [][NextFn]_vars

(***************************************************************************)
(* Properties.                                                             *)
(***************************************************************************)
\* the image files of a folder, and those of them that carry an index
Images(S) == {f \in S : IsImage(f)}
Indexed(S) == {f \in Images(S) : \E i \in 1..Len(f) : f[i] \in Digits}

GeneratorRan == op.name = "generate_missing_images"
ComposerRan == op.name = "create_tilesheet"

C2_FilledSequence ==
    (ComposerRan /\ op.fill /\ Indexed(op.snapshot) # {}) =>
        LET indices == {composer_parse_last_number(f) : f \in Indexed(op.snapshot)}
            lo == MinOf(indices)
            hi == MaxOf(indices)
            slots == op.expanded_files
        IN  /\ op.returned = "completed"
            /\ Len(slots) = hi - lo + 1
            /\ \A k \in 0..(hi - lo) :
                  IF lo + k \in indices
                  THEN /\ slots[k + 1] \in Images(op.snapshot)
                       /\ composer_parse_last_number(slots[k + 1]) = lo + k
                  ELSE slots[k + 1] = NoFile
            /\ \A f \in Images(op.snapshot) \ Indexed(op.snapshot) : f \notin Range(slots)

\* a0.png and a3.png: four slots, the two in the middle placeholders
C2_Witness ==
    /\ ComposerRan
    /\ op.fill
    /\ op.snapshot = {<<"a", "0", ".", "p", "n", "g">>, <<"a", "3", ".", "p", "n", "g">>}
    /\ op.expanded_files = << <<"a", "0", ".", "p", "n", "g">>, NoFile, NoFile,
                              <<"a", "3", ".", "p", "n", "g">> >>
    /\ op.grid.grid_width = 512
    /\ op.grid.grid_height = 256

\* C3: the missing indices are exactly the integers of min..max that are no
\* key of the index map, ascending; one file is written per missing index, in
\* that order, named prefix + index + extension after the file of min; no
\* missing index, no file
C3_MissingIndicesWritten ==
    (GeneratorRan /\ Indexed(op.snapshot) # {}) =>
        LET map == op.index_to_file
            keys == {parse_last_number(f) : f \in Indexed(op.snapshot)}
            lo == MinOf(keys)
            hi == MaxOf(keys)
            miss == op.missing_indices
        IN  /\ op.returned \in {"completed", "no holes"}
            /\ DOMAIN map = keys
            /\ \A i \in keys : map[i] \in Indexed(op.snapshot) /\ parse_last_number(map[i]) = i
            /\ Range(miss) = (lo..hi) \ keys
            /\ \A j, k \in 1..Len(miss) : j < k => miss[j] < miss[k]
            /\ Len(op.written) = Len(miss)
            /\ \A k \in 1..Len(miss) :
                  op.written[k] = parse_prefix(map[lo], lo) \o str(miss[k])
                                     \o lower(splitext(map[lo])[2])
            /\ folder = op.snapshot \cup Range(op.written)
            /\ (miss = <<>>) = (op.returned = "no holes")

\* indices 0 and 3, the extension of the file of index 0 in upper case
C3_Witness ==
    /\ GeneratorRan
    /\ op.missing_indices = <<1, 2>>
    /\ op.written = << <<"a", "1", ".", "j", "p", "g">>, <<"a", "2", ".", "j", "p", "g">> >>

\* C4: columns = min(N, max_columns), rows = ceil(N / columns), the canvas is
\* columns * tile_width by rows * tile_height, slot i is pasted at
\* ((i mod columns) * tile_width, (i div columns) * tile_height); every cell
\* lies inside the canvas and no two slots share a cell
C4_GridLayout ==
    call.fn = "grid" =>
        LET n == call.num_images
            g == call.ret
        IN  /\ g.error = ""
            /\ g.columns <= n /\ g.columns <= call.max_columns
            /\ g.columns = n \/ g.columns = call.max_columns
            /\ g.rows * g.columns >= n
            /\ (g.rows - 1) * g.columns < n
            /\ g.grid_width = g.columns * tile_width
            /\ g.grid_height = g.rows * tile_height
            /\ Len(g.cells) = n
            /\ \A i \in 0..(n - 1) :
                  /\ g.cells[i + 1] = <<(i % g.columns) * tile_width,
                                        (i \div g.columns) * tile_height>>
                  /\ g.cells[i + 1][1] + tile_width <= g.grid_width
                  /\ g.cells[i + 1][2] + tile_height <= g.grid_height
            /\ \A i, j \in 1..n : g.cells[i] = g.cells[j] => i = j

\* ten items in at most eight columns: two rows, item 8 opens the second
C4_Witness ==
    /\ call.fn = "grid"
    /\ call.num_images = 10
    /\ call.max_columns = 8
    /\ call.ret.columns = 8
    /\ call.ret.rows = 2
    /\ call.ret.cells[9] = <<0, 256>>

\* two filenames that differ only in their digit runs
SameStructure(f, g) ==
    LET tf == re_split(f)
        tg == re_split(g)
    IN  /\ Len(tf) = Len(tg)
        /\ \A i \in 1..Len(tf) : (i % 2 = 1) => tf[i] = tg[i]

\* the integer values of the digit runs of a filename, left to right
RunValues(f) ==
    LET tf == re_split(f)
    IN  [k \in 1..(Len(tf) \div 2) |-> int(tf[2 * k])]

\* the order of two sequences of integers of one length: by the first
\* position where they differ
RECURSIVE ValuesCmp(_, _)
ValuesCmp(v, w) ==
    IF v = <<>> THEN "eq"
    ELSE IF Head(v) < Head(w) THEN "lt"
    ELSE IF Head(v) > Head(w) THEN "gt"
    ELSE ValuesCmp(Tail(v), Tail(w))

NaturalSortCalled == call.fn = "natural_sort"

\* C5 as claimed: distinct filenames of one structure have keys one strictly
\* below the other, no comparison mixes text and number, and the sorted
\* sequence is the same for both listing orders
C5_StrictTotalOrder ==
    NaturalSortCalled =>
        /\ call.cmp # "TypeError"
        /\ (call.f # call.g /\ SameStructure(call.f, call.g)) => call.cmp \in {"lt", "gt"}
        /\ call.ret = sort_natural(<<call.g, call.f>>)

\* C5, amended: no comparison of two keys mixes text and number; filenames of
\* one structure are ordered by the integer values of their digit runs, the
\* first run whose values differ deciding; those whose runs all have equal
\* values (leading zeros) have equal keys and keep their listing order, and
\* only files of different keys are placed independently of the listing
C5_TotalPreorder ==
    NaturalSortCalled =>
        LET back == KeyCmp(natural_key(call.g), natural_key(call.f))
        IN  /\ call.cmp \in {"lt", "eq", "gt"}
            /\ (call.cmp = "lt") = (back = "gt")
            /\ (call.cmp = "eq") = (back = "eq")
            /\ SameStructure(call.f, call.g) =>
                  call.cmp = ValuesCmp(RunValues(call.f), RunValues(call.g))
            /\ call.cmp = "lt" => call.ret = <<call.f, call.g>>
            /\ call.cmp = "gt" => call.ret = <<call.g, call.f>>
            /\ call.cmp = "eq" => call.ret = <<call.f, call.g>>
            /\ call.cmp # "eq" => call.ret = sort_natural(<<call.g, call.f>>)

\* tile_10.png listed before tile_2.png, and sorted behind it
C5_Witness ==
    /\ NaturalSortCalled
    /\ call.f = <<"t", "i", "l", "e", "_", "1", "0", ".", "p", "n", "g">>
    /\ call.g = <<"t", "i", "l", "e", "_", "2", ".", "p", "n", "g">>
    /\ call.cmp = "gt"
    /\ call.ret = << <<"t", "i", "l", "e", "_", "2", ".", "p", "n", "g">>,
                     <<"t", "i", "l", "e", "_", "1", "0", ".", "p", "n", "g">> >>

\* C6 as claimed: wherever index-based logic runs, a line is printed for every
\* image file without a digit run
C6_WarningForEveryUnindexedFile ==
    ((GeneratorRan \/ (ComposerRan /\ op.fill)) /\ op.error = "") =>
        \A f \in Images(op.snapshot) \ Indexed(op.snapshot) :
           \E k \in 1..Len(op.printed) : op.printed[k].file = f

\* C7: no image file, or index-based processing and no image file with an
\* index: the run reports it and returns, saving no sheet and no placeholder;
\* no run takes the minimum or maximum of an empty collection
C7_AbortsWithoutWriting ==
    (GeneratorRan \/ ComposerRan) =>
        LET noImages == Images(op.snapshot) = {}
            noIndex == /\ GeneratorRan \/ op.fill
                       /\ Images(op.snapshot) # {}
                       /\ Indexed(op.snapshot) = {}
        IN  /\ op.error # "ValueError"
            /\ noImages =>
                  /\ op.returned = "no images"
                  /\ op.printed = <<Msg(IF GeneratorRan
                                        THEN "No images found in the selected folder!"
                                        ELSE "No images found in the input folder.", <<>>)>>
            /\ noIndex =>
                  /\ op.returned = "no numbers"
                  /\ op.printed # <<>>
                  /\ op.printed[Len(op.printed)] =
                        Msg(IF GeneratorRan
                            THEN "None of the images contain a number in the name. Exiting."
                            ELSE "No files with numbers found, cannot create placeholders.", <<>>)
            /\ (noImages \/ noIndex) =>
                  /\ op.error = ""
                  /\ op.written = <<>>
                  /\ ~op.saved
                  /\ folder = op.snapshot
            /\ (op.saved \/ op.written # <<>>) => ~(noImages \/ noIndex)

\* the generator on a folder of two image files without any digit
C7_Witness ==
    /\ GeneratorRan
    /\ op.snapshot = {<<"a", ".", "p", "n", "g">>, <<".", "p", "n", "g">>}
    /\ op.returned = "no numbers"

\* sum of the digits of f[s..e], each with its decimal weight
RECURSIVE Pow10(_)
Pow10(k) == IF k = 0 THEN 1 ELSE 10 * Pow10(k - 1)

RECURSIVE WeightedSum(_, _, _)
WeightedSum(f, s, e) ==
    IF s > e THEN 0 ELSE DigitVal(f[s]) * Pow10(e - s) + WeightedSum(f, s + 1, e)

\* the value of the last maximal digit run of f, None if f has no digit
LastRunValue(f) ==
    LET digitAt == {i \in 1..Len(f) : f[i] \in Digits}
    IN  IF digitAt = {} THEN None
        ELSE LET e == MaxOf(digitAt)
                 s == MinOf({i \in 1..e : \A j \in i..e : j \in digitAt})
             IN  WeightedSum(f, s, e)

ParseLastNumberCalled == call.fn = "parse_last_number"

ParsePrefixCalled == call.fn = "parse_prefix"

=============================================================================
